---- MODULE Spec2Model ----
(***************************************************************************)
(* FHMQV_Domain (RemoteDesktop_Library/fhmqv.h): fully hashed MQV          *)
(* authenticated key agreement.  The group parameter provider, the big     *)
(* integer type and the hash are template parameters of the class; they    *)
(* are instantiated here by small multiplicative groups modulo a safe      *)
(* prime and by a short polynomial hash, so that every exponentiation and  *)
(* every digest byte is actually computed.                                 *)
(***************************************************************************)
EXTENDS Integers, Sequences, FiniteSets, TLC

VARIABLES
    params,       \* m_groupParameters, the same in every Domain of a run
    NDEBUG,       \* TRUE when the build compiles assertions out
    key,          \* per party (a Domain of that role): the key buffers it generated
    agreedValue,  \* per party: the caller's agreedValue buffer
    session,      \* per party: the counterpart keys of its last successful Agree
    last,         \* the last Agree call made: caller, arguments, result
    call,         \* per thread: the locals of its Agree call in progress
    qIn, lenOut   \* argument and result of the challenge length computation

vars == <<params, NDEBUG, key, agreedValue, session, last, call, qIn, lenOut>>

(***************************************************************************)
(* Bounds of the model.                                                    *)
(***************************************************************************)
\* HASH::DIGESTSIZE of the hash the Domain is instantiated with, in bytes.
DIGESTSIZE == 1
\* The random number generator draws private exponents from 1..MaxDraw.
MaxDraw == 2
\* A freshly allocated SecByteBlock is filled with a value in 0..MaxGarbage.
MaxGarbage == 1
\* Subgroup orders fed to the challenge length computation: 2..MaxOrder.
MaxOrder == 33000

Byte == 0..255
NoKey == <<>>
Parties == {"Client", "Server"}
Peer(who) == IF who = "Client" THEN "Server" ELSE "Client"

(***************************************************************************)
(* Integer: arbitrary precision in the source.  Products are reduced       *)
(* piecewise so that no intermediate value leaves the checker's integers;  *)
(* the results are those of the exact operations.                          *)
(***************************************************************************)
Min(a, b) == IF a <= b THEN a ELSE b

\* (a * b) % m for a, b < 2^18, m < 2^18
MulMod(a, b, m) ==
    LET x == a % m
        hi == b \div 512
        lo == b % 512
    IN  ((((x * hi) % m) * 512) + x * lo) % m

RECURSIVE PowAcc(_, _, _, _)
\* acc * b^e % m, by squaring b for each bit of e, the low bit first
PowAcc(acc, b, e, m) ==
    IF e = 0 \/ acc = 0 \/ b = 1 THEN acc
    ELSE IF e % 2 = 1
         THEN PowAcc(MulMod(acc, b, m), MulMod(b, b, m), e \div 2, m)
         ELSE PowAcc(acc, MulMod(b, b, m), e \div 2, m)

\* (base ^ e) % m
PowMod(base, e, m) == PowAcc(1 % m, base % m, e, m)

RECURSIVE BitCount(_)
\* Integer::BitCount: number of significant bits, 0 for 0
BitCount(n) == IF n = 0 THEN 0 ELSE 1 + BitCount(n \div 2)

RECURSIVE ByteCount(_)
\* Integer::ByteCount: number of significant bytes, 0 for 0
ByteCount(n) == IF n = 0 THEN 0 ELSE 1 + ByteCount(n \div 256)

RECURSIVE Encode(_, _)
\* Integer::Encode: big-endian, exactly len bytes, high bytes dropped
Encode(n, len) ==
    IF len = 0 THEN <<>> ELSE Append(Encode(n \div 256, len - 1), n % 256)

RECURSIVE Decode(_)
\* Integer(const byte *, size_t) and Integer::Decode: big-endian unsigned
Decode(bytes) ==
    IF bytes = <<>> THEN 0
    ELSE Decode(SubSeq(bytes, 1, Len(bytes) - 1)) * 256 + bytes[Len(bytes)]

(***************************************************************************)
(* Group parameter provider (DL_GroupParameters<Element>).  An element is  *)
(* a residue modulo p; the subgroup generated by g has prime order q.      *)
(* strict tells whether DecodeElement raises DL_BadElement on an encoding  *)
(* that is no element at all (as the elliptic curve provider does) or      *)
(* returns the integer as it is (as the integer provider does).            *)
(***************************************************************************)
GroupChoices ==
    { [p |-> 23, q |-> 11, g |-> 2, strict |-> FALSE],
      [p |-> 263, q |-> 131, g |-> 4, strict |-> TRUE],
      [p |-> 131267, q |-> 65633, g |-> 4, strict |-> FALSE] }

BadElement == -1
NoSigma == -2

GetSubgroupOrder(P) == P.q
GetMaxExponent(P) == P.q - 1
GetEncodedElementSize(P) == ByteCount(P.p)
ExponentiateBase(P, x) == PowMod(P.g, x, P.p)
ExponentiateElement(P, base, x) == PowMod(base, x, P.p)
MultiplyElements(P, a, b) == MulMod(a, b, P.p)
EncodeElement(P, el) == Encode(el, GetEncodedElementSize(P))

\* DecodeElement(encoded, false): no membership check is requested
DecodeElement(P, encoded) ==
    LET v == Decode(encoded)
    IN  IF P.strict /\ (v = 0 \/ v >= P.p) THEN BadElement ELSE v

\* ValidateElement(level, element, NULL): level 1 checks that the element
\* is a non-identity member of the group, level 3 also that its order is q
ValidateElement(P, level, el) ==
    /\ el > 0
    /\ el < P.p
    /\ el # 1
    /\ level >= 2 => ExponentiateElement(P, el, P.q) = 1

(***************************************************************************)
(* HASH: a polynomial hash, one such polynomial per digest byte.  Update   *)
(* absorbs the bytes in order, each byte b taking the state h to           *)
(* (31 * h + b + 1) % 256; TruncatedFinal(digest, sz) writes the first sz  *)
(* bytes of the digest.                                                    *)
(***************************************************************************)
RECURSIVE Absorb(_, _, _)
\* the state that absorbing bytes[lo..hi] leads to from state 0, the
\* range being split in halves
Absorb(bytes, lo, hi) ==
    IF lo > hi THEN 0
    ELSE IF lo = hi THEN bytes[lo] + 1
    ELSE LET mid == (lo + hi) \div 2
         IN  (Absorb(bytes, lo, mid) * PowMod(31, hi - mid, 256) + Absorb(bytes, mid + 1, hi)) % 256

\* the state that absorbing bytes leads to from state h
Update(h, bytes) == (h * PowMod(31, Len(bytes), 256) + Absorb(bytes, 1, Len(bytes))) % 256

TruncatedFinal(msg, sz) == [i \in 1..sz |-> Update((7 * i) % 256, msg)]

(***************************************************************************)
(* FHMQV_Domain: lengths.                                                  *)
(***************************************************************************)
AgreedValueLength == DIGESTSIZE
StaticPrivateKeyLength(P) == ByteCount(GetSubgroupOrder(P))
StaticPublicKeyLength(P) == GetEncodedElementSize(P)
\* A faulty variant: the cached public key is not counted.
EphemeralPrivateKeyLengthShort(P) == StaticPrivateKeyLength(P)

EphemeralPrivateKeyLength(P) == StaticPrivateKeyLength(P) + StaticPublicKeyLength(P)
EphemeralPublicKeyLength(P) == StaticPublicKeyLength(P)

(***************************************************************************)
(* FHMQV_Domain::Hash.  dest is the destination buffer as it is before the *)
(* call; only the first min(dlen, DIGESTSIZE) bytes of it are written.     *)
(* With assertions compiled in, a longer request stops the program.        *)
(***************************************************************************)
Hash(P, sigma, e1, e2, s1, s2, dest, dlen, asserts) ==
    LET sbb == IF sigma # NoSigma THEN EncodeElement(P, sigma) ELSE <<>>
        msg == sbb \o e1 \o e2 \o s1 \o s2
        sz == Min(dlen, DIGESTSIZE)
    IN  [ abort |-> asserts /\ ~(dlen <= DIGESTSIZE),
          filled |-> sz,
          digest |-> TruncatedFinal(msg, sz) \o SubSeq(dest, sz + 1, Len(dest)) ]

(***************************************************************************)
(* FHMQV_Domain::Agree, statement by statement.  a is the record of the    *)
(* call's arguments: staticPrivateKey, ephemeralPrivateKey,                *)
(* staticOtherPublicKey, ephemeralOtherPublicKey (byte strings) and        *)
(* validateStaticOtherPublicKey (a boolean).                               *)
(***************************************************************************)
\* The role branch that labels the operands; tt receives the encoding of
\* the caller's own static public key, recomputed from the private key.
LabelOperands(role, P, a) ==
    LET own == Decode(SubSeq(a.staticPrivateKey, 1, StaticPrivateKeyLength(P)))
        tt == EncodeElement(P, ExponentiateBase(P, own))
        cached == SubSeq(a.ephemeralPrivateKey, StaticPrivateKeyLength(P) + 1,
                         StaticPrivateKeyLength(P) + EphemeralPublicKeyLength(P))
    IN  IF role = "Server"
        THEN [XX |-> a.ephemeralOtherPublicKey, YY |-> cached,
              AA |-> a.staticOtherPublicKey, BB |-> tt]
        ELSE [XX |-> cached, YY |-> a.ephemeralOtherPublicKey,
              AA |-> tt, BB |-> a.staticOtherPublicKey]

\* A faulty variant: the static key is validated at level 3 whatever the flag.
CheckStaticOtherLevel3(P, a) ==
    LET VV1 == DecodeElement(P, a.staticOtherPublicKey)
    IN  IF VV1 = BadElement THEN "throw"
        ELSE IF ~ValidateElement(P, 3, VV1) THEN "reject" ELSE "pass"

\* Decode and validate the counterpart's static public key:
\* "throw", "reject" or "pass".
CheckStaticOther(P, a) ==
    LET VV1 == DecodeElement(P, a.staticOtherPublicKey)
    IN  IF VV1 = BadElement THEN "throw"
        ELSE IF ~ValidateElement(P, IF a.validateStaticOtherPublicKey THEN 3 ELSE 1, VV1)
             THEN "reject"
             ELSE "pass"

\* A faulty variant: the ephemeral key is validated at level 1 only.
CheckEphemeralOtherLevel1(P, a) ==
    LET VV2 == DecodeElement(P, a.ephemeralOtherPublicKey)
    IN  IF VV2 = BadElement THEN "throw"
        ELSE IF ~ValidateElement(P, 1, VV2) THEN "reject" ELSE "pass"

\* Decode and validate the counterpart's ephemeral public key.
CheckEphemeralOther(P, a) ==
    LET VV2 == DecodeElement(P, a.ephemeralOtherPublicKey)
    IN  IF VV2 = BadElement THEN "throw"
        ELSE IF ~ValidateElement(P, 3, VV2) THEN "reject" ELSE "pass"

\* A faulty variant: the bit count is not rounded up to whole bytes.
ChallengeLenTruncated(q) == ((BitCount(q) + 1) \div 2) \div 8

\* len, the size in bytes of the challenge buffers dd and ee
ChallengeLen(q) == ((BitCount(q) + 1) \div 2 + 7) \div 8

\* The contents a freshly allocated SecByteBlock(len) may have: whatever the
\* allocator left there, here one fill value repeated.
FreshBlocks(len) == {[i \in 1..len |-> v] : v \in 0..MaxGarbage}

HashD(P, L, dd, asserts) == Hash(P, NoSigma, L.XX, L.YY, L.AA, L.BB, dd, Len(dd), asserts)

HashE(P, L, ee, asserts) == Hash(P, NoSigma, L.YY, L.XX, L.AA, L.BB, ee, Len(ee), asserts)

\* (x + d * a) % q, the product reduced before it is added
CombinedExponent(x, d, s, q) == ((x % q) + MulMod(d % q, s % q, q)) % q

\* sigma, or BadElement when a DecodeElement raises DL_BadElement
Sigma(role, P, a, L, d, e) ==
    LET eph == Decode(SubSeq(a.ephemeralPrivateKey, 1, StaticPrivateKeyLength(P)))
        sta == Decode(SubSeq(a.staticPrivateKey, 1, StaticPrivateKeyLength(P)))
    IN  IF role = "Server"
        THEN LET s_B == CombinedExponent(eph, e, sta, P.q)
                 A == DecodeElement(P, L.AA)
                 X == DecodeElement(P, L.XX)
             IN  IF A = BadElement \/ X = BadElement THEN BadElement
                 ELSE LET t1 == ExponentiateElement(P, A, d)
                          t2 == MultiplyElements(P, X, t1)
                      IN  ExponentiateElement(P, t2, s_B)
        ELSE LET s_A == CombinedExponent(eph, d, sta, P.q)
                 B == DecodeElement(P, L.BB)
                 Y == DecodeElement(P, L.YY)
             IN  IF B = BadElement \/ Y = BadElement THEN BadElement
                 ELSE LET t1 == ExponentiateElement(P, B, e)
                          t2 == MultiplyElements(P, Y, t1)
                      IN  ExponentiateElement(P, t2, s_A)

FinalHash(P, L, sigma, buffer, asserts) == Hash(P, sigma, L.XX, L.YY, L.AA, L.BB, buffer, AgreedValueLength, asserts)

\* One whole call.  buffer is the caller's agreedValue buffer before the
\* call, dd0 and ee0 the challenge buffers as allocated.  ret is "true",
\* "false", or "abort" when an assertion stops the program; dlens lists the
\* output length requested of each Hash invocation made.
AgreeRun(role, P, a, buffer, dd0, ee0, asserts) ==
    LET L == LabelOperands(role, P, a)
        Out(r, av, n) == [ret |-> r, agreedValue |-> av,
                          dlens |-> SubSeq(<<Len(dd0), Len(ee0), AgreedValueLength>>, 1, n)]
    IN  IF CheckStaticOther(P, a) # "pass" THEN Out("false", buffer, 0)
        ELSE IF CheckEphemeralOther(P, a) # "pass" THEN Out("false", buffer, 0)
        ELSE LET hd == HashD(P, L, dd0, asserts)
             IN  IF hd.abort THEN Out("abort", buffer, 1) ELSE
             LET he == HashE(P, L, ee0, asserts)
             IN  IF he.abort THEN Out("abort", buffer, 2) ELSE
             LET sigma == Sigma(role, P, a, L, Decode(hd.digest), Decode(he.digest))
             IN  IF sigma = BadElement THEN Out("false", buffer, 2) ELSE
             LET hf == FinalHash(P, L, sigma, buffer, asserts)
             IN  IF hf.abort THEN Out("abort", buffer, 3)
                 ELSE Out("true", hf.digest, 3)

(***************************************************************************)
(* State.                                                                  *)
(***************************************************************************)
Threads == {1, 2}
Filler == [i \in 1..AgreedValueLength |-> 0]
NoArgs == [staticPrivateKey |-> NoKey, ephemeralPrivateKey |-> NoKey,
           staticOtherPublicKey |-> NoKey, ephemeralOtherPublicKey |-> NoKey,
           validateStaticOtherPublicKey |-> TRUE]
NoCall == [who |-> "none", a |-> NoArgs, ret |-> "none", dlens |-> <<>>]
NoKeys == [sPriv |-> NoKey, sPub |-> NoKey, ePriv |-> NoKey, ePub |-> NoKey]
Idle == [pc |-> "idle", who |-> "none", a |-> NoArgs, L |-> <<>>, dd |-> <<>>,
         ee |-> <<>>, sigma |-> NoSigma, ret |-> "none", agreedValue |-> Filler]
Unused == 0 - 1

\* What the random number generator may return for Integer(rng, 1, max).
Draws(P) == 1..Min(MaxDraw, GetMaxExponent(P))

Running == last.ret # "abort" /\ \A t \in Threads : call[t].pc # "abort"

InitCommon ==
    /\ params \in GroupChoices
    /\ NDEBUG \in BOOLEAN
    /\ agreedValue = [w \in Parties |-> Filler]
    /\ session = [w \in Parties |-> <<>>]
    /\ last = NoCall
    /\ call = [t \in Threads |-> Idle]
    /\ qIn = Unused
    /\ lenOut = Unused

Init ==
    /\ InitCommon
    /\ key = [w \in Parties |-> NoKeys]

(***************************************************************************)
(* Key generation.                                                         *)
(***************************************************************************)
GenerateStaticPrivateKey(who, x) ==
    /\ Running
    /\ key[who].sPriv = NoKey
    /\ key' = [key EXCEPT ![who].sPriv = Encode(x, StaticPrivateKeyLength(params))]
    /\ UNCHANGED <<params, NDEBUG, agreedValue, session, last, call, qIn, lenOut>>

StaticPublicKeyOf(P, privateKey) ==
    LET x == Decode(SubSeq(privateKey, 1, StaticPrivateKeyLength(P)))
        y == ExponentiateBase(P, x)
    IN  EncodeElement(P, y)

GenerateStaticPublicKey(who) ==
    /\ Running
    /\ key[who].sPriv # NoKey
    /\ key[who].sPub = NoKey
    /\ key' = [key EXCEPT ![who].sPub = StaticPublicKeyOf(params, key[who].sPriv)]
    /\ UNCHANGED <<params, NDEBUG, agreedValue, session, last, call, qIn, lenOut>>

EphemeralPrivateKeyOf(P, x) ==
    Encode(x, StaticPrivateKeyLength(P)) \o EncodeElement(P, ExponentiateBase(P, x))

GenerateEphemeralPrivateKey(who, x) ==
    /\ Running
    /\ key[who].ePriv = NoKey
    /\ key' = [key EXCEPT ![who].ePriv = EphemeralPrivateKeyOf(params, x)]
    /\ UNCHANGED <<params, NDEBUG, agreedValue, session, last, call, qIn, lenOut>>

\* A faulty variant: the copy starts at the beginning of the private key.
EphemeralPublicKeyFromStart(P, privateKey) == SubSeq(privateKey, 1, EphemeralPublicKeyLength(P))

\* memcpy(publicKey, privateKey + StaticPrivateKeyLength(), EphemeralPublicKeyLength())
EphemeralPublicKeyOf(P, privateKey) ==
    SubSeq(privateKey, StaticPrivateKeyLength(P) + 1,
           StaticPrivateKeyLength(P) + EphemeralPublicKeyLength(P))

GenerateEphemeralPublicKey(who) ==
    /\ Running
    /\ key[who].ePriv # NoKey
    /\ key[who].ePub = NoKey
    /\ key' = [key EXCEPT ![who].ePub = EphemeralPublicKeyOf(params, key[who].ePriv)]
    /\ UNCHANGED <<params, NDEBUG, agreedValue, session, last, call, qIn, lenOut>>

KeyGeneration ==
    \E who \in Parties :
        \/ \E x \in Draws(params) : GenerateStaticPrivateKey(who, x)
        \/ GenerateStaticPublicKey(who)
        \/ \E x \in Draws(params) : GenerateEphemeralPrivateKey(who, x)
        \/ GenerateEphemeralPublicKey(who)

\* A faulty variant of Agree: the agreedValue buffer is cleared on entry,
\* before the counterpart's keys are validated.
AgreeClearingFirst(who, a) ==
    /\ Running
    /\ \E dd0, ee0 \in FreshBlocks(ChallengeLen(GetSubgroupOrder(params))) :
          \E r \in {AgreeRun(who, params, a, Filler, dd0, ee0, ~NDEBUG)} :
              /\ agreedValue' = [agreedValue EXCEPT ![who] = r.agreedValue]
              /\ session' = IF r.ret = "true"
                            THEN [session EXCEPT ![who] =
                                    <<a.staticOtherPublicKey, a.ephemeralOtherPublicKey>>]
                            ELSE session
              /\ last' = [who |-> who, a |-> a, ret |-> r.ret, dlens |-> r.dlens]
    /\ UNCHANGED <<params, NDEBUG, key, call, qIn, lenOut>>

(***************************************************************************)
(* Agree, called by party who with arguments a.  The challenge buffers     *)
(* are allocated without being initialised.                                *)
(***************************************************************************)
Agree(who, a) ==
    /\ Running
    /\ \E dd0, ee0 \in FreshBlocks(ChallengeLen(GetSubgroupOrder(params))) :
          \E r \in {AgreeRun(who, params, a, agreedValue[who], dd0, ee0, ~NDEBUG)} :
              /\ agreedValue' = [agreedValue EXCEPT ![who] = r.agreedValue]
              /\ session' = IF r.ret = "true"
                            THEN [session EXCEPT ![who] =
                                    <<a.staticOtherPublicKey, a.ephemeralOtherPublicKey>>]
                            ELSE session
              /\ last' = [who |-> who, a |-> a, ret |-> r.ret, dlens |-> r.dlens]
    /\ UNCHANGED <<params, NDEBUG, key, call, qIn, lenOut>>

\* A party calls Agree on the public keys its counterpart generated.
HonestAgree(who) ==
    /\ key[who].sPriv # NoKey
    /\ key[who].ePriv # NoKey
    /\ key[Peer(who)].sPub # NoKey
    /\ key[Peer(who)].ePub # NoKey
    /\ \E flag \in BOOLEAN :
          Agree(who, [staticPrivateKey |-> key[who].sPriv,
                      ephemeralPrivateKey |-> key[who].ePriv,
                      staticOtherPublicKey |-> key[Peer(who)].sPub,
                      ephemeralOtherPublicKey |-> key[Peer(who)].ePub,
                      validateStaticOtherPublicKey |-> flag])

Next ==
    \/ KeyGeneration
    \/ \E who \in Parties : HonestAgree(who)

Spec == Init /\ [][Next]_vars

(***************************************************************************)
(* A Domain facing an arbitrary counterpart: only one party exists, and    *)
(* the public keys it is given are any encodings of the right length.      *)
(***************************************************************************)
\* The identity, the generator (a member of the subgroup), an element of
\* the group of order 2q (outside the subgroup), and the modulus, which
\* encodes no element.
CounterpartElements(P) == {1, P.g, P.p - P.g, P.p}

CounterpartKeys(P) == {EncodeElement(P, el) : el \in CounterpartElements(P)}

SoloGenerateStaticPrivateKey(who, x) ==
    /\ key[Peer(who)] = NoKeys
    /\ GenerateStaticPrivateKey(who, x)

SoloGenerateEphemeralPrivateKey(who, x) ==
    /\ key[Peer(who)] = NoKeys
    /\ GenerateEphemeralPrivateKey(who, x)

AnyAgree(who) ==
    /\ key[who].sPriv # NoKey
    /\ key[who].ePriv # NoKey
    /\ \E flag \in BOOLEAN, sOther, eOther \in CounterpartKeys(params) :
          Agree(who, [staticPrivateKey |-> key[who].sPriv,
                      ephemeralPrivateKey |-> key[who].ePriv,
                      staticOtherPublicKey |-> sOther,
                      ephemeralOtherPublicKey |-> eOther,
                      validateStaticOtherPublicKey |-> flag])

NextAdv ==
    \E who \in Parties :
        \/ \E x \in Draws(params) : SoloGenerateStaticPrivateKey(who, x)
        \/ \E x \in Draws(params) : SoloGenerateEphemeralPrivateKey(who, x)
        \/ AnyAgree(who)

SpecAdv == Init /\ [][NextAdv]_vars

(***************************************************************************)
(* Two threads call Agree on the same Domain at the same time, each with   *)
(* buffers of its own.  A step is one statement group of Agree.            *)
(***************************************************************************)
InitConc ==
    /\ InitCommon
    /\ \E who \in Parties, x \in Draws(params) :
          key = [w \in Parties |->
                   IF w = who
                   THEN [sPriv |-> Encode(x, StaticPrivateKeyLength(params)),
                         sPub |-> NoKey,
                         ePriv |-> EphemeralPrivateKeyOf(params, x),
                         ePub |-> NoKey]
                   ELSE NoKeys]

\* The counterpart keys the concurrent callers pass.
ConcurrentKeys(P) == {EncodeElement(P, el) : el \in {P.g, P.p - P.g, P.p}}

Owner == CHOOSE w \in Parties : key[w] # NoKeys

ConcUnchanged == UNCHANGED <<params, NDEBUG, key, agreedValue, session, last, qIn, lenOut>>

Start(t, flag, sOther, eOther) ==
    /\ Running
    /\ call[t].pc = "idle"
    /\ call' = [call EXCEPT ![t] =
                  [Idle EXCEPT !.pc = "label", !.who = Owner,
                               !.a = [staticPrivateKey |-> key[Owner].sPriv,
                                      ephemeralPrivateKey |-> key[Owner].ePriv,
                                      staticOtherPublicKey |-> sOther,
                                      ephemeralOtherPublicKey |-> eOther,
                                      validateStaticOtherPublicKey |-> flag]]]
    /\ ConcUnchanged

StepLabel(t) ==
    /\ Running
    /\ call[t].pc = "label"
    /\ call' = [call EXCEPT ![t].L = LabelOperands(call[t].who, params, call[t].a),
                            ![t].pc = "static"]
    /\ ConcUnchanged

StepStatic(t) ==
    /\ Running
    /\ call[t].pc = "static"
    /\ call' = IF CheckStaticOther(params, call[t].a) = "pass"
               THEN [call EXCEPT ![t].pc = "ephemeral"]
               ELSE [call EXCEPT ![t].pc = "done", ![t].ret = "false"]
    /\ ConcUnchanged

StepEphemeral(t) ==
    /\ Running
    /\ call[t].pc = "ephemeral"
    /\ call' = IF CheckEphemeralOther(params, call[t].a) = "pass"
               THEN [call EXCEPT ![t].pc = "hashD"]
               ELSE [call EXCEPT ![t].pc = "done", ![t].ret = "false"]
    /\ ConcUnchanged

\* A faulty variant of StepHashD: dd is one buffer shared by all calls.
StepHashDShared(t) ==
    /\ Running
    /\ call[t].pc = "hashD"
    /\ \E dd0 \in FreshBlocks(ChallengeLen(GetSubgroupOrder(params))) :
       \E h \in {HashD(params, call[t].L, dd0, ~NDEBUG)} :
          call' = IF h.abort
                  THEN [call EXCEPT ![t].pc = "abort", ![t].ret = "abort"]
                  ELSE [u \in Threads |->
                          IF u = t THEN [call[u] EXCEPT !.pc = "hashE", !.dd = h.digest]
                                   ELSE [call[u] EXCEPT !.dd = h.digest]]
    /\ ConcUnchanged

StepHashD(t) ==
    /\ Running
    /\ call[t].pc = "hashD"
    /\ \E dd0 \in FreshBlocks(ChallengeLen(GetSubgroupOrder(params))) :
       \E h \in {HashD(params, call[t].L, dd0, ~NDEBUG)} :
          call' = IF h.abort
                  THEN [call EXCEPT ![t].pc = "abort", ![t].ret = "abort"]
                  ELSE [call EXCEPT ![t].pc = "hashE", ![t].dd = h.digest]
    /\ ConcUnchanged

StepHashE(t) ==
    /\ Running
    /\ call[t].pc = "hashE"
    /\ \E ee0 \in FreshBlocks(ChallengeLen(GetSubgroupOrder(params))) :
       \E h \in {HashE(params, call[t].L, ee0, ~NDEBUG)} :
          call' = IF h.abort
                  THEN [call EXCEPT ![t].pc = "abort", ![t].ret = "abort"]
                  ELSE [call EXCEPT ![t].pc = "sigma", ![t].ee = h.digest]
    /\ ConcUnchanged

StepSigma(t) ==
    /\ Running
    /\ call[t].pc = "sigma"
    /\ \E s \in {Sigma(call[t].who, params, call[t].a, call[t].L,
                       Decode(call[t].dd), Decode(call[t].ee))} :
          call' = IF s = BadElement
                  THEN [call EXCEPT ![t].pc = "done", ![t].ret = "false"]
                  ELSE [call EXCEPT ![t].pc = "final", ![t].sigma = s]
    /\ ConcUnchanged

StepFinal(t) ==
    /\ Running
    /\ call[t].pc = "final"
    /\ \E h \in {FinalHash(params, call[t].L, call[t].sigma, call[t].agreedValue, ~NDEBUG)} :
          call' = IF h.abort
                  THEN [call EXCEPT ![t].pc = "abort", ![t].ret = "abort"]
                  ELSE [call EXCEPT ![t].pc = "done", ![t].ret = "true",
                                    ![t].agreedValue = h.digest]
    /\ ConcUnchanged

NextConc ==
    \E t \in Threads :
        \/ \E flag \in BOOLEAN, sOther, eOther \in ConcurrentKeys(params) :
              Start(t, flag, sOther, eOther)
        \/ StepLabel(t)
        \/ StepStatic(t)
        \/ StepEphemeral(t)
        \/ StepHashD(t)
        \/ StepHashE(t)
        \/ StepSigma(t)
        \/ StepFinal(t)

SpecConc == InitConc /\ [][NextConc]_vars

(***************************************************************************)
(* The challenge length as a function of the subgroup order.               *)
(***************************************************************************)
IsPrime(n) == n >= 2 /\ \A k \in 2..Min(n - 1, 200) : k * k > n \/ n % k # 0

InitLen ==
    /\ params \in GroupChoices
    /\ NDEBUG = TRUE
    /\ key = [w \in Parties |-> NoKeys]
    /\ agreedValue = [w \in Parties |-> Filler]
    /\ session = [w \in Parties |-> <<>>]
    /\ last = NoCall
    /\ call = [t \in Threads |-> Idle]
    /\ qIn \in {n \in 2..MaxOrder : IsPrime(n)}
    /\ lenOut = Unused

ComputeLen ==
    /\ lenOut = Unused
    /\ lenOut' = ChallengeLen(qIn)
    /\ UNCHANGED <<params, NDEBUG, key, agreedValue, session, last, call, qIn>>

SpecLen == InitLen /\ [][ComputeLen]_vars

(***************************************************************************)
(* Properties.                                                             *)
(***************************************************************************)
Called == last.who \in Parties
Decodes(P, k) == DecodeElement(P, k) # BadElement
PassesLevel(P, level, k) == Decodes(P, k) /\ ValidateElement(P, level, DecodeElement(P, k))
OutsideSubgroup(P, k) == Decodes(P, k) /\ ~ValidateElement(P, 3, DecodeElement(P, k))
LastBytes(bytes, n) == SubSeq(bytes, Len(bytes) - n + 1, Len(bytes))
CeilDiv(a, b) == (a + b - 1) \div b
HasKeys(who) == key[who].sPriv # NoKey /\ key[who].ePriv # NoKey /\ key[who].sPub # NoKey /\ key[who].ePub # NoKey
PublicKeys(who) == <<key[who].sPub, key[who].ePub>>
HonestCall == Called /\ <<last.a.staticOtherPublicKey, last.a.ephemeralOtherPublicKey>> = PublicKeys(Peer(last.who))

\* C1: mutual agreement.  Every Agree call made on the counterpart's
\* generated public keys succeeds, and once the Client has agreed on the
\* Server's public keys and the Server on the Client's, the two agreedValue
\* buffers hold the same bytes.
C1_MutualAgreement ==
    /\ HonestCall => last.ret = "true"
    /\ (/\ HasKeys("Client")
        /\ HasKeys("Server")
        /\ session["Client"] = PublicKeys("Server")
        /\ session["Server"] = PublicKeys("Client"))
       => agreedValue["Client"] = agreedValue["Server"]

\* C2: invalid element rejection.  Agree returns false whenever validation
\* is requested and the counterpart's static public key decodes to an
\* element outside the subgroup, and whenever the counterpart's ephemeral
\* public key decodes to an element outside the subgroup or does not decode.
C2_InvalidElementRejected ==
    Called =>
       /\ (last.a.validateStaticOtherPublicKey
             /\ OutsideSubgroup(params, last.a.staticOtherPublicKey))
          => last.ret = "false"
       /\ (OutsideSubgroup(params, last.a.ephemeralOtherPublicKey)
             \/ ~Decodes(params, last.a.ephemeralOtherPublicKey))
          => last.ret = "false"

\* C2 witness: a call whose static argument is a valid key, whose ephemeral
\* argument is a group element outside the subgroup, and which returned false.
C2_Witness ==
    /\ Called
    /\ PassesLevel(params, 3, last.a.staticOtherPublicKey)
    /\ PassesLevel(params, 1, last.a.ephemeralOtherPublicKey)
    /\ OutsideSubgroup(params, last.a.ephemeralOtherPublicKey)
    /\ last.ret = "false"

\* C3: the flag selects the validation level of the static key only.  With
\* the flag false a static key that passes level 1 and fails level 3 does
\* not make Agree return false; with the flag true it does; an ephemeral
\* key that passes level 1 and fails level 3 makes Agree return false
\* whatever the flag is.
C3_FlagOnlyStatic ==
    Called =>
       /\ (/\ ~last.a.validateStaticOtherPublicKey
           /\ PassesLevel(params, 1, last.a.staticOtherPublicKey)
           /\ ~PassesLevel(params, 3, last.a.staticOtherPublicKey)
           /\ PassesLevel(params, 3, last.a.ephemeralOtherPublicKey))
          => last.ret # "false"
       /\ (/\ last.a.validateStaticOtherPublicKey
           /\ PassesLevel(params, 1, last.a.staticOtherPublicKey)
           /\ ~PassesLevel(params, 3, last.a.staticOtherPublicKey))
          => last.ret = "false"
       /\ (/\ PassesLevel(params, 1, last.a.ephemeralOtherPublicKey)
           /\ ~PassesLevel(params, 3, last.a.ephemeralOtherPublicKey))
          => last.ret = "false"

\* C3 witness: a call with the flag false and a static key that passes
\* level 1 only, which returned true.
C3_Witness ==
    /\ Called
    /\ ~last.a.validateStaticOtherPublicKey
    /\ PassesLevel(params, 1, last.a.staticOtherPublicKey)
    /\ ~PassesLevel(params, 3, last.a.staticOtherPublicKey)
    /\ last.ret = "true"

\* C4: Agree is all or nothing.  A step that leaves the last call failed (or
\* stopped) leaves every agreedValue buffer as it was; a step that changes a
\* buffer is a call that returned true, whose counterpart keys both passed
\* validation, and it changes the caller's buffer only.
C4_AllOrNothing ==
    [][ /\ (last'.ret # "true") => (agreedValue' = agreedValue)
        /\ (agreedValue' # agreedValue) =>
              /\ last'.ret = "true"
              /\ CheckStaticOther(params, last'.a) = "pass"
              /\ CheckEphemeralOther(params, last'.a) = "pass"
              /\ \A w \in Parties \ {last'.who} : agreedValue'[w] = agreedValue[w]
      ]_vars

\* C4 witness: a failed call after a successful one; the buffer still holds
\* the agreed value of the earlier call.
C4_Witness ==
    /\ Called
    /\ last.ret = "false"
    /\ session[last.who] # <<>>
    /\ agreedValue[last.who] # Filler

\* C5: determinism.  An Agree call with the caller and arguments of the
\* call before it returns the same result and, on success, leaves the same
\* bytes in agreedValue.
C5_Determinism ==
    [][ (Called /\ last'.who = last.who /\ last'.a = last.a) =>
           /\ last'.ret = last.ret
           /\ last'.ret = "true" => agreedValue'[last.who] = agreedValue[last.who]
      ]_vars

\* C6: concurrent calls do not interfere.  Whatever the interleaving, a
\* call that has returned has a result and an agreedValue that the same
\* call produces when it runs alone, and a call stopped by an assertion is
\* one that is stopped when it runs alone.
C6_NoInterference ==
    \A t \in Threads :
        call[t].pc \in {"done", "abort"} =>
           \E dd0, ee0 \in FreshBlocks(ChallengeLen(GetSubgroupOrder(params))) :
              LET r == AgreeRun(call[t].who, params, call[t].a, Filler, dd0, ee0, ~NDEBUG)
              IN  r.ret = call[t].ret /\ r.agreedValue = call[t].agreedValue

\* C6 witness: both threads have returned from calls with different
\* arguments, one with an agreed value.
C6_Witness ==
    /\ call[1].pc = "done"
    /\ call[2].pc = "done"
    /\ call[1].a # call[2].a
    /\ call[1].ret = "true"
    /\ call[2].ret = "true"

\* C7: ephemeral public extraction.  GenerateEphemeralPublicKey writes the
\* last StaticPublicKeyLength() bytes of the ephemeral private key and
\* leaves the private key as it was.
C7_EphemeralPublicExtraction ==
    [][ \A who \in Parties :
           key'[who].ePub # key[who].ePub =>
              /\ key[who].ePriv # NoKey
              /\ key'[who].ePriv = key[who].ePriv
              /\ key'[who].ePub = LastBytes(key[who].ePriv, StaticPublicKeyLength(params))
      ]_vars

\* C7 witness: an ephemeral public key has been extracted.
C7_Witness ==
    /\ key["Client"].ePriv # NoKey
    /\ key["Client"].ePub # NoKey
    /\ key["Client"].ePub = EncodeElement(params, ExponentiateBase(params, 2))

\* C8: length invariants.  EphemeralPrivateKeyLength is the sum of the
\* static private and public key lengths, EphemeralPublicKeyLength is the
\* static public key length, AgreedValueLength is the digest size, and the
\* buffers the operations fill have these lengths.
C8_LengthInvariants ==
    /\ EphemeralPrivateKeyLength(params) = StaticPrivateKeyLength(params) + StaticPublicKeyLength(params)
    /\ EphemeralPublicKeyLength(params) = StaticPublicKeyLength(params)
    /\ AgreedValueLength = DIGESTSIZE
    /\ \A who \in Parties :
          /\ key[who].sPriv # NoKey => Len(key[who].sPriv) = StaticPrivateKeyLength(params)
          /\ key[who].sPub # NoKey => Len(key[who].sPub) = StaticPublicKeyLength(params)
          /\ key[who].ePriv # NoKey => Len(key[who].ePriv) = EphemeralPrivateKeyLength(params)
          /\ key[who].ePub # NoKey => Len(key[who].ePub) = EphemeralPublicKeyLength(params)
          /\ Len(agreedValue[who]) = AgreedValueLength

\* C8 witness: all four keys of a party exist and it has agreed, in a group
\* whose private and public keys differ in length.
C8_Witness ==
    /\ HasKeys("Server")
    /\ StaticPrivateKeyLength(params) # StaticPublicKeyLength(params)
    /\ last.who = "Server"
    /\ last.ret = "true"

\* C9 as stated: len = ceil(ceil((bitlength(q) + 1) / 2) / 8).
C9_LenAsStated ==
    lenOut # Unused => lenOut = CeilDiv(CeilDiv(BitCount(qIn) + 1, 2), 8)

\* C9 as amended: len = ceil(ceil(bitlength(q) / 2) / 8), the number of
\* bytes that hold half the bits of q, the half rounded up.
C9_LenAmended ==
    lenOut # Unused => lenOut = CeilDiv(CeilDiv(BitCount(qIn), 2), 8)

\* C9 witness: the length computed for a subgroup order of 16 bits, where
\* the two formulas differ.
C9_Witness ==
    /\ lenOut # Unused
    /\ BitCount(qIn) = 16
    /\ lenOut = 1

\* C10: every Hash invocation of Agree requests at most DIGESTSIZE bytes.
C10_HashWithinDigest ==
    \A i \in DOMAIN last.dlens : last.dlens[i] <= DIGESTSIZE
====
